---- MODULE Spec2Model ----
(***************************************************************************)
(* Model of seq2seq/dataset/utils.py: the length filter, the single-space  *)
(* tokenizer, the two pair loaders and the vocabulary reader.              *)
(*                                                                         *)
(* A string is a sequence of one-character strings.  A text file is the    *)
(* sequence of its raw lines, as iteration over an open text file yields   *)
(* them: each ends with its line terminator, except that the last line of  *)
(* a file may lack it.  One call of one of the   *)
(* four functions is one behaviour: `op` names the function, `pc` is the   *)
(* position of the call inside it.                                         *)
(*                                                                         *)
(* The interpreter is Python 3: map() returns a lazy iterator object, not  *)
(* a list, and subscripting it raises TypeError.                           *)
(***************************************************************************)
EXTENDS Integers, Sequences, FiniteSets

VARIABLES
    op,             \* the function being called
    pc,             \* position inside the call
    exists,         \* prepare_data / read_vocabulary: open(path) can succeed
    file,           \* prepare_data / read_vocabulary: the raw lines of the file
    src_list,       \* prepare_data_from_list argument
    tgt_list,       \* prepare_data_from_list argument
    src_max_len,    \* argument
    tgt_max_len,    \* argument
    max_num_vocab,  \* read_vocabulary argument
    text,           \* space_tokenize argument
    line,           \* loop variable `line`
    fields,         \* <<src, dst>> of the last line that unpacked
    pairs,          \* local list `pairs`
    vocab,          \* local set `vocab`
    index,          \* lines taken from the file iterator / list index
    inserted,       \* number of vocab.add calls made
    nfilter,        \* number of filter_pair calls made
    handle,         \* file handle: "none", "open", "closed"
    opens,          \* number of times open() returned a handle
    log,            \* records sent to the logger, in order
    exc,            \* exception propagating out of the call, or "none"
    ret             \* value returned to the caller

vars == <<op, pc, exists, file, src_list, tgt_list, src_max_len, tgt_max_len,
          max_num_vocab, text, line, fields, pairs, vocab, index, inserted,
          nfilter, handle, opens, log, exc, ret>>

(***************************************************************************)
(* Bounds of the checked inputs.                                           *)
(***************************************************************************)
MaxLineLen == 4     \* characters of an exhaustively enumerated line or text
MaxLines == 4       \* lines of a file drawn from a line pool
MaxListLen == 2     \* entries of src_list / tgt_list
MaxCap == 2         \* largest src_max_len / tgt_max_len
MaxVocab == 3       \* largest max_num_vocab

(***************************************************************************)
(* Characters and strings.                                                 *)
(***************************************************************************)
SP == " "
TAB == "\t"
NL == "\n"

Alphabet == {"a", "b", SP, TAB}

RECURSIVE StringsOfLen(_)
StringsOfLen(n) ==
    IF n = 0 THEN {<<>>}
    ELSE {Append(s, c) : s \in StringsOfLen(n - 1), c \in Alphabet}

Strings(n) == UNION {StringsOfLen(k) : k \in 0..n}

RECURSIVE SeqsOfLen(_, _)
SeqsOfLen(S, n) ==
    IF n = 0 THEN {<<>>}
    ELSE {Append(s, x) : s \in SeqsOfLen(S, n - 1), x \in S}

SeqsUpTo(S, n) == UNION {SeqsOfLen(S, k) : k \in 0..n}

\* str.strip() with no argument removes whitespace characters
IsSpace(c) == c \in {SP, TAB, NL}

RECURSIVE lstrip(_)
lstrip(s) ==
    IF s # <<>> /\ IsSpace(Head(s)) THEN lstrip(Tail(s)) ELSE s

RECURSIVE rstrip(_)
rstrip(s) ==
    IF s # <<>> /\ IsSpace(s[Len(s)]) THEN rstrip(SubSeq(s, 1, Len(s) - 1)) ELSE s

strip_trailing_only(s) == rstrip(s)

strip(s) == rstrip(lstrip(s))

\* str.split(sep) for a one-character sep: every run between separators,
\* empty runs included; a string without sep gives the one-element list
RECURSIVE split(_, _)
split(s, sep) ==
    LET hits == {i \in 1..Len(s) : s[i] = sep}
    IN  IF hits = {} THEN <<s>>
        ELSE LET i == CHOOSE k \in hits : \A m \in hits : k <= m
             IN  <<SubSeq(s, 1, i - 1)>> \o split(SubSeq(s, i + 1, Len(s)), sep)

\* str.split() with no separator: runs of non-whitespace, no empty tokens
RECURSIVE split_whitespace(_)
split_whitespace(s) ==
    LET t == lstrip(s)
        ws == {i \in 1..Len(t) : IsSpace(t[i])}
    IN  IF t = <<>> THEN <<>>
        ELSE IF ws = {} THEN <<t>>
        ELSE LET i == CHOOSE k \in ws : \A m \in ws : k <= m
             IN  <<SubSeq(t, 1, i - 1)>> \o split_whitespace(SubSeq(t, i + 1, Len(t)))

space_tokenize_any_whitespace(t) == split_whitespace(t)

space_tokenize(t) == split(t, SP)

(***************************************************************************)
(* Python objects: the iterator object map() returns.                      *)
(***************************************************************************)
\* map(tokenize_func, [src, dst]): nothing is tokenized until it is iterated
map_(xs) == [type |-> "map", items |-> xs]

Subscriptable(obj) == obj.type # "map"

\* filter_pair: pair[0] and pair[1] are subscript operations
filter_pair(pair, smax, tmax) ==
    IF Subscriptable(pair)
    THEN [exc |-> "none",
          val |-> Len(pair.items[1]) <= smax /\ Len(pair.items[2]) <= tmax]
    ELSE [exc |-> "TypeError", val |-> FALSE]

\* src, dst = parts
Unpack2AtLeast(parts) == Len(parts) >= 2

Unpack2(parts) == Len(parts) = 2

LengthMismatchOneSided(s, t) == Len(s) > Len(t)

LengthMismatch(s, t) == ~(Len(s) = Len(t))

CapReachedStrict(v, m) == Cardinality(v) > m

CapReached(v, m) == Cardinality(v) >= m

VocabAddRaw(v, l) == v \cup {l}

VocabAdd(v, l) == v \cup {strip(l)}

\* leaving the `with open(path) as fin:` block, normally or by an exception
HandleAfterWithNoFinally(h, e) == IF e = "none" THEN "closed" ELSE h

HandleAfterWith(h, e) == "closed"

NoValue == [has |-> FALSE, val |-> <<>>]
Value(v) == [has |-> TRUE, val |-> v]

Info(what, arg) == [level |-> "info", what |-> what, arg |-> arg]
Error(l) == [level |-> "error", what |-> "Error when reading line", arg |-> l]

(***************************************************************************)
(* Inputs.                                                                 *)
(***************************************************************************)
Terminated(body) == Append(body, NL)

\* every line of at most MaxLineLen characters, as the only line of a file,
\* with its terminator or, when it is not empty, without
AllLines ==
    {Terminated(b) : b \in Strings(MaxLineLen)} \cup (Strings(MaxLineLen) \ {<<>>})

\* lines of the pair files of several lines
PairLines == {
    Terminated(<<"a", TAB, "a">>),
    Terminated(<<"a", SP, "a", TAB, "a">>),
    Terminated(<<"a">>),
    Terminated(<<"a", TAB, "a", TAB, "a">>) }

PairFiles == {<<l>> : l \in AllLines} \cup SeqsUpTo(PairLines, MaxLines)

\* lines of the vocabulary files
VocabLines == {
    Terminated(<<"a">>),
    Terminated(<<"b">>),
    Terminated(<<SP, "a", SP>>),
    Terminated(<<>>),
    Terminated(<<"a", SP, "b">>) }

VocabFiles == SeqsUpTo(VocabLines, MaxLines)

\* entries of src_list and tgt_list
Sentences == { <<"a">>, <<"a", SP, "b">>, <<"a", SP, "b", SP, "c">> }

SentenceLists == SeqsUpTo(Sentences, MaxListLen)

Idle ==
    /\ pc = "start"
    /\ line = <<>>
    /\ fields = <<>>
    /\ pairs = <<>>
    /\ vocab = {}
    /\ index = 0
    /\ inserted = 0
    /\ nfilter = 0
    /\ handle = "none"
    /\ opens = 0
    /\ log = <<>>
    /\ exc = "none"
    /\ ret = NoValue

InitPD ==
    /\ op = "prepare_data"
    /\ exists \in BOOLEAN
    /\ file \in (IF exists THEN PairFiles ELSE {<<>>})
    /\ src_max_len \in 0..MaxCap
    /\ tgt_max_len \in 0..MaxCap
    /\ src_list = <<>> /\ tgt_list = <<>> /\ max_num_vocab = 0 /\ text = <<>>
    /\ Idle

InitPL ==
    /\ op = "prepare_data_from_list"
    /\ src_list \in SentenceLists
    /\ tgt_list \in SentenceLists
    /\ src_max_len \in 0..MaxCap
    /\ tgt_max_len \in 0..MaxCap
    /\ exists = FALSE /\ file = <<>> /\ max_num_vocab = 0 /\ text = <<>>
    /\ Idle

InitRV ==
    /\ op = "read_vocabulary"
    /\ exists \in BOOLEAN
    /\ file \in (IF exists THEN VocabFiles ELSE {<<>>})
    /\ max_num_vocab \in 0..MaxVocab
    /\ src_list = <<>> /\ tgt_list = <<>> /\ src_max_len = 0 /\ tgt_max_len = 0
    /\ text = <<>>
    /\ Idle

InitTok ==
    /\ op = "space_tokenize"
    /\ text \in Strings(MaxLineLen)
    /\ exists = FALSE /\ file = <<>> /\ src_list = <<>> /\ tgt_list = <<>>
    /\ src_max_len = 0 /\ tgt_max_len = 0 /\ max_num_vocab = 0
    /\ Idle

Init == InitPD \/ InitPL \/ InitRV \/ InitTok

inputs == <<op, exists, file, src_list, tgt_list, src_max_len, tgt_max_len,
            max_num_vocab, text>>

(***************************************************************************)
(* The `with open(path) as fin:` statement of prepare_data and of          *)
(* read_vocabulary.                                                        *)
(***************************************************************************)
Open ==
    /\ op \in {"prepare_data", "read_vocabulary"}
    /\ pc = "open"
    /\ IF exists
       THEN /\ handle' = "open"
            /\ opens' = opens + 1
            /\ pc' = "iter"
            /\ exc' = exc
       ELSE /\ exc' = "FileNotFoundError"
            /\ pc' = "done"
            /\ UNCHANGED <<handle, opens>>
    /\ UNCHANGED <<inputs, line, fields, pairs, vocab, index, inserted, nfilter,
                   log, ret>>

Close ==
    /\ op \in {"prepare_data", "read_vocabulary"}
    /\ pc = "close"
    /\ handle' = HandleAfterWith(handle, exc)
    /\ pc' = IF exc = "none" THEN "finish" ELSE "done"
    /\ UNCHANGED <<inputs, line, fields, pairs, vocab, index, inserted, nfilter,
                   opens, log, exc, ret>>

(***************************************************************************)
(* prepare_data                                                            *)
(***************************************************************************)
PD_Start ==
    /\ op = "prepare_data"
    /\ pc = "start"
    /\ log' = Append(log, Info("Reading Lines from", <<>>))
    /\ pairs' = <<>>
    /\ pc' = "open"
    /\ UNCHANGED <<inputs, line, fields, vocab, index, inserted, nfilter,
                   handle, opens, exc, ret>>

\* for line in tqdm(fin):
PD_Iter ==
    /\ op = "prepare_data"
    /\ pc = "iter"
    /\ IF index < Len(file)
       THEN /\ line' = file[index + 1]
            /\ index' = index + 1
            /\ pc' = "body"
       ELSE /\ pc' = "close"
            /\ UNCHANGED <<line, index>>
    /\ UNCHANGED <<inputs, fields, pairs, vocab, inserted, nfilter, handle,
                   opens, log, exc, ret>>

\* the try block and its except clause
PD_Body ==
    /\ op = "prepare_data"
    /\ pc = "body"
    /\ LET parts == split(strip(line), TAB)
           pair == map_(parts)
           r == filter_pair(pair, src_max_len, tgt_max_len)
       IN  IF ~Unpack2(parts)
           THEN /\ log' = Append(log, Error(line))
                /\ exc' = "ValueError"
                /\ pc' = "close"
                /\ UNCHANGED <<fields, nfilter, pairs>>
           ELSE /\ fields' = parts
                /\ nfilter' = nfilter + 1
                /\ IF r.exc # "none"
                   THEN /\ log' = Append(log, Error(line))
                        /\ exc' = r.exc
                        /\ pc' = "close"
                        /\ pairs' = pairs
                   ELSE /\ pairs' = IF r.val THEN Append(pairs, pair) ELSE pairs
                        /\ pc' = "iter"
                        /\ UNCHANGED <<log, exc>>
    /\ UNCHANGED <<inputs, line, vocab, index, inserted, handle, opens, ret>>

PD_Finish ==
    /\ op = "prepare_data"
    /\ pc = "finish"
    /\ log' = Append(log, Info("Number of pairs", Len(pairs)))
    /\ ret' = Value(pairs)
    /\ pc' = "done"
    /\ UNCHANGED <<inputs, line, fields, pairs, vocab, index, inserted, nfilter,
                   handle, opens, exc>>

(***************************************************************************)
(* prepare_data_from_list                                                  *)
(***************************************************************************)
PL_Check ==
    /\ op = "prepare_data_from_list"
    /\ pc = "start"
    /\ IF LengthMismatch(src_list, tgt_list)
       THEN /\ exc' = "ValueError"
            /\ pc' = "done"
            /\ UNCHANGED <<log, pairs>>
       ELSE /\ log' = Append(log, Info("Preparing pairs...", <<>>))
            /\ pairs' = <<>>
            /\ pc' = "iter"
            /\ exc' = exc
    /\ UNCHANGED <<inputs, line, fields, vocab, index, inserted, nfilter,
                   handle, opens, ret>>

\* one round of `for index, _ in tqdm(enumerate(src_list)):`
PL_Step ==
    /\ op = "prepare_data_from_list"
    /\ pc = "iter"
    /\ index < Len(src_list)
    /\ LET pair == map_(<<src_list[index + 1], tgt_list[index + 1]>>)
           r == filter_pair(pair, src_max_len, tgt_max_len)
       IN  /\ nfilter' = nfilter + 1
           /\ IF r.exc # "none"
              THEN /\ exc' = r.exc
                   /\ pc' = "done"
                   /\ UNCHANGED <<pairs, index>>
              ELSE /\ pairs' = IF r.val THEN Append(pairs, pair) ELSE pairs
                   /\ index' = index + 1
                   /\ UNCHANGED <<pc, exc>>
    /\ UNCHANGED <<inputs, line, fields, vocab, inserted, handle, opens, log, ret>>

PL_Finish ==
    /\ op = "prepare_data_from_list"
    /\ pc = "iter"
    /\ index >= Len(src_list)
    /\ log' = Append(log, Info("Number of pairs", Len(pairs)))
    /\ ret' = Value(pairs)
    /\ pc' = "done"
    /\ UNCHANGED <<inputs, line, fields, pairs, vocab, index, inserted, nfilter,
                   handle, opens, exc>>

(***************************************************************************)
(* read_vocabulary                                                         *)
(***************************************************************************)
RV_Start ==
    /\ op = "read_vocabulary"
    /\ pc = "start"
    /\ log' = Append(log, Info("Reading vocabulary from", <<>>))
    /\ vocab' = {}
    /\ pc' = "open"
    /\ UNCHANGED <<inputs, line, fields, pairs, index, inserted, nfilter,
                   handle, opens, exc, ret>>

\* for line in fin:
RV_Iter ==
    /\ op = "read_vocabulary"
    /\ pc = "iter"
    /\ IF index < Len(file)
       THEN /\ line' = file[index + 1]
            /\ index' = index + 1
            /\ pc' = "body"
       ELSE /\ pc' = "close"
            /\ UNCHANGED <<line, index>>
    /\ UNCHANGED <<inputs, fields, pairs, vocab, inserted, nfilter, handle,
                   opens, log, exc, ret>>

\* the cap test with its break, then the try block (str.strip and set.add
\* raise nothing on a str, so the except clause is never entered)
RV_Body ==
    /\ op = "read_vocabulary"
    /\ pc = "body"
    /\ IF CapReached(vocab, max_num_vocab)
       THEN /\ pc' = "close"
            /\ UNCHANGED <<vocab, inserted>>
       ELSE /\ vocab' = VocabAdd(vocab, line)
            /\ inserted' = inserted + 1
            /\ pc' = "iter"
    /\ UNCHANGED <<inputs, line, fields, pairs, index, nfilter, handle, opens,
                   log, exc, ret>>

RV_Finish ==
    /\ op = "read_vocabulary"
    /\ pc = "finish"
    /\ log' = Append(log, Info("Size of Vocabulary", Cardinality(vocab)))
    /\ ret' = Value(vocab)
    /\ pc' = "done"
    /\ UNCHANGED <<inputs, line, fields, pairs, vocab, index, inserted, nfilter,
                   handle, opens, exc>>

(***************************************************************************)
(* space_tokenize                                                          *)
(***************************************************************************)
Tok_Call ==
    /\ op = "space_tokenize"
    /\ pc = "start"
    /\ ret' = Value(space_tokenize(text))
    /\ pc' = "done"
    /\ UNCHANGED <<inputs, line, fields, pairs, vocab, index, inserted, nfilter,
                   handle, opens, log, exc>>

Next ==
    \/ Open
    \/ Close
    \/ PD_Start
    \/ PD_Iter
    \/ PD_Body
    \/ PD_Finish
    \/ PL_Check
    \/ PL_Step
    \/ PL_Finish
    \/ RV_Start
    \/ RV_Iter
    \/ RV_Body
    \/ RV_Finish
    \/ Tok_Call

Spec == Init /\ [][Next]_vars

(***************************************************************************)
(* Vocabulary of the properties, stated without the operators above.       *)
(***************************************************************************)
SetMin(S) == CHOOSE x \in S : \A y \in S : x <= y
SetMax(S) == CHOOSE x \in S : \A y \in S : x >= y

\* s without its leading and trailing whitespace
Trimmed(s) ==
    LET solid == {i \in 1..Len(s) : s[i] \notin {SP, TAB, NL}}
    IN  IF solid = {} THEN <<>> ELSE SubSeq(s, SetMin(solid), SetMax(solid))

TabsAt(s) == {i \in 1..Len(s) : s[i] = TAB}

WellFormedLine(l) == Cardinality(TabsAt(Trimmed(l))) = 1

SrcOf(l) == LET t == Trimmed(l) IN SubSeq(t, 1, SetMin(TabsAt(t)) - 1)
DstOf(l) == LET t == Trimmed(l) IN SubSeq(t, SetMin(TabsAt(t)) + 1, Len(t))

\* the tokens of a single-space-delimited text: one more than its spaces
TokenCount(s) == Cardinality({i \in 1..Len(s) : s[i] = SP}) + 1

RECURSIVE Join(_, _)
Join(toks, sep) ==
    IF toks = <<>> THEN <<>>
    ELSE IF Len(toks) = 1 THEN toks[1]
    ELSE toks[1] \o <<sep>> \o Join(Tail(toks), sep)

WithinCaps(s, t) == TokenCount(s) <= src_max_len /\ TokenCount(t) <= tgt_max_len

RECURSIVE KeptPairs(_, _)
KeptPairs(ss, ts) ==
    IF ss = <<>> THEN <<>>
    ELSE (IF WithinCaps(Head(ss), Head(ts))
          THEN << <<space_tokenize(Head(ss)), space_tokenize(Head(ts))>> >>
          ELSE <<>>) \o KeptPairs(Tail(ss), Tail(ts))

MalformedAt == {i \in 1..Len(file) : ~WellFormedLine(file[i])}

DistinctIn(n) == {Trimmed(file[j]) : j \in 1..n}

\* positions of the lines that the iterator hands out with the set already full
FullAt == {j \in 1..Len(file) : Cardinality(DistinctIn(j - 1)) >= max_num_vocab}

LastLog == log[Len(log)]

(***************************************************************************)
(* C1.  For a file of well-formed lines, prepare_data returns exactly the  *)
(* tokenized pairs of the lines whose source and target token counts are   *)
(* within src_max_len and tgt_max_len, in file order.                      *)
(***************************************************************************)
C1_ReturnsPairsWithinCaps ==
    (op = "prepare_data" /\ pc = "done" /\ exists /\ MalformedAt = {})
        => /\ exc = "none"
           /\ ret.has
           /\ ret.val = KeptPairs([i \in 1..Len(file) |-> SrcOf(file[i])],
                                  [i \in 1..Len(file) |-> DstOf(file[i])])

(***************************************************************************)
(* C2.  If a line of the file is malformed, prepare_data ends with the     *)
(* failure propagating, nothing returned, the first malformed line the     *)
(* last one read, and an error record carrying that raw line.              *)
(***************************************************************************)
C2_FirstMalformedLineAborts ==
    (op = "prepare_data" /\ pc = "done" /\ exists /\ MalformedAt # {})
        => /\ exc # "none"
           /\ ~ret.has
           /\ index = SetMin(MalformedAt)
           /\ LastLog.level = "error"
           /\ LastLog.arg = file[SetMin(MalformedAt)]

(***************************************************************************)
(* C3.  prepare_data_from_list with lists of different lengths fails with  *)
(* the length-mismatch error in its first step: no filter_pair call, no    *)
(* index advanced, no pair appended, nothing logged, nothing returned.     *)
(***************************************************************************)
C3_MismatchFailsFirst ==
    (op = "prepare_data_from_list" /\ Len(src_list) # Len(tgt_list) /\ pc # "start")
        => /\ pc = "done"
           /\ exc = "ValueError"
           /\ nfilter = 0
           /\ index = 0
           /\ pairs = <<>>
           /\ log = <<>>
           /\ ~ret.has

C3_Witness ==
    /\ op = "prepare_data_from_list"
    /\ pc = "done"
    /\ Len(src_list) > 0
    /\ Len(src_list) < Len(tgt_list)
    /\ exc = "ValueError"

(***************************************************************************)
(* C4.  For lists of equal length, prepare_data_from_list returns, in      *)
(* index order, the tokenized pairs whose token counts are within the caps.*)
(***************************************************************************)
C4_ListReturnsPairsWithinCaps ==
    (op = "prepare_data_from_list" /\ pc = "done" /\ Len(src_list) = Len(tgt_list))
        => /\ exc = "none"
           /\ ret.has
           /\ ret.val = KeptPairs(src_list, tgt_list)

(***************************************************************************)
(* C5.  In read_vocabulary the accumulated set, and the set returned,      *)
(* never have more than max_num_vocab elements.                            *)
(***************************************************************************)
C5_VocabWithinCap ==
    op = "read_vocabulary"
        => /\ Cardinality(vocab) <= max_num_vocab
           /\ (ret.has => Cardinality(ret.val) <= max_num_vocab)

C5_Witness ==
    /\ op = "read_vocabulary"
    /\ pc = "done"
    /\ ret.has
    /\ max_num_vocab >= 2
    /\ Cardinality(ret.val) = max_num_vocab
    /\ index < Len(file)

(***************************************************************************)
(* C6.  read_vocabulary returns the set of the first min(max_num_vocab, D) *)
(* distinct stripped lines in file order, D the number of distinct         *)
(* stripped lines of the file; a repeated line takes no capacity.          *)
(***************************************************************************)
C6_FirstDistinctLines ==
    (op = "read_vocabulary" /\ pc = "done" /\ exists)
        => LET D == Cardinality(DistinctIn(Len(file)))
               k == IF max_num_vocab < D THEN max_num_vocab ELSE D
           IN  /\ ret.has
               /\ Cardinality(ret.val) = k
               /\ ret.val = {Trimmed(file[j]) : j \in
                               {i \in 1..Len(file) : Cardinality(DistinctIn(i)) <= k}}

C6_Witness ==
    /\ op = "read_vocabulary"
    /\ pc = "done"
    /\ ret.has
    /\ max_num_vocab >= 2
    /\ Cardinality(ret.val) = max_num_vocab
    /\ inserted > Cardinality(ret.val)

(***************************************************************************)
(* C7.  Joining the tokens of space_tokenize(s) with single spaces gives   *)
(* back s.                                                                 *)
(***************************************************************************)
C7_JoinInvertsTokenize ==
    (op = "space_tokenize" /\ pc = "done")
        => /\ ret.has
           /\ Join(ret.val, SP) = text

C7_Witness ==
    /\ op = "space_tokenize"
    /\ pc = "done"
    /\ text = <<SP, "a", SP, SP>>
    /\ Len(ret.val) = 4

(***************************************************************************)
(* C8 as stated.  When read_vocabulary has filled the set, the lines taken *)
(* from the file are as many as the lines inserted.                        *)
(***************************************************************************)
C8_ConsumedEqualsInserted ==
    (op = "read_vocabulary" /\ pc = "done" /\ exists
        /\ max_num_vocab > 0 /\ Cardinality(vocab) = max_num_vocab)
        => index = inserted

(***************************************************************************)
(* C8 amended.  Once the set is full no further line is inserted and at    *)
(* most one further line is taken from the file, the one on which the loop *)
(* finds the set full and breaks: the lines taken are the lines inserted,  *)
(* plus one when the read stopped on the cap; the lines after it are       *)
(* never taken.                                                            *)
(***************************************************************************)
C8_AtMostOneLineAfterFull ==
    op = "read_vocabulary"
        => /\ inserted <= index
           /\ index <= inserted + 1
           /\ (pc = "done" /\ exists) =>
                 IF FullAt = {}
                 THEN index = Len(file) /\ inserted = Len(file)
                 ELSE index = SetMin(FullAt) /\ inserted = SetMin(FullAt) - 1

C8_Witness ==
    /\ op = "read_vocabulary"
    /\ pc = "done"
    /\ max_num_vocab > 0
    /\ Cardinality(vocab) = max_num_vocab
    /\ index = inserted + 1
    /\ index < Len(file)

(***************************************************************************)
(* C9.  prepare_data and read_vocabulary open the file at most once, hold  *)
(* the handle only while reading, and end with it released whenever it was *)
(* acquired, whether the read ended at end of file, on the size cap or on  *)
(* an error.                                                               *)
(***************************************************************************)
C9_HandleReleased ==
    op \in {"prepare_data", "read_vocabulary"}
        => /\ opens <= 1
           /\ (handle = "open" => pc \in {"iter", "body", "close"})
           /\ (pc \in {"finish", "done"} =>
                 handle = (IF exists THEN "closed" ELSE "none"))

C9_Witness ==
    /\ op = "prepare_data"
    /\ pc = "done"
    /\ exc = "ValueError"
    /\ opens = 1
    /\ handle = "closed"

(***************************************************************************)
(* C10.  A line that prepare_data has processed unpacked into source and   *)
(* target exactly when its stripped text holds exactly one tab, and then   *)
(* source is the text before the tab and target the text after it; any     *)
(* other line raised the malformed-record error, which is logged with the  *)
(* raw line and ends the read with nothing returned.                       *)
(***************************************************************************)
C10_WellFormedIffOneTab ==
    (op = "prepare_data" /\ index >= 1 /\ pc \in {"iter", "close", "finish", "done"})
        => IF WellFormedLine(line)
           THEN /\ fields = <<SrcOf(line), DstOf(line)>>
                /\ exc # "ValueError"
           ELSE /\ exc = "ValueError"
                /\ fields = <<>>
                /\ LastLog = Error(line)
                /\ pc \in {"close", "done"}
                /\ ~ret.has

C10_Witness ==
    /\ op = "prepare_data"
    /\ pc = "done"
    /\ Cardinality(TabsAt(line)) = 1
    /\ TabsAt(Trimmed(line)) = {}
    /\ Trimmed(line) # <<>>
    /\ exc = "ValueError"

====
